---------------------------- MODULE Spec2Model ----------------------------
(***************************************************************************)
(* A model of the VRP optimizer pipeline (src/vrp_optimizer):              *)
(*   - main.assign_depots and depot_selector.select_depots (SpecSelect),   *)
(*   - scheduler.get_daily_site_list / get_weekly_schedule (SpecSched),    *)
(*   - main's depot-day loop with solver.solve_daily_vrp (SpecSolve),      *)
(*   - report.print_depot_pnl on the results of a solved week (SpecReport),*)
(*   - google_distance.build_google_matrices run by several processes that *)
(*     share the distance cache file (SpecCache).                          *)
(*                                                                         *)
(* Units.  Python floats are replaced by exact integers:                   *)
(*   money of the depot estimate : 1/52000 dollar (so that the weekly      *)
(*       fixed cost TRUCK_FIXED_ANNUAL / 52 is an integer),                *)
(*   money of the solver         : cents (a visit's net contribution, a    *)
(*       float of dollars in the code, in 1/10 cent),                      *)
(*   weights                     : quarter pounds (so that demand / 2.0 of *)
(*       a demand in half pounds is exact, as it is for a float),          *)
(*   latitude                    : steps of 100 km along one meridian, on  *)
(*       which the haversine distance is 100 km times the difference.      *)
(***************************************************************************)
EXTENDS Integers, Sequences, FiniteSets, TLC

VARIABLES
    pc,              \* position of the pipeline / of the function being run
    depots,          \* the depot dict handed to assign_depots/select_depots
    sites,           \* the list of site dicts (site["depot"] is mutated)
    open_depots,     \* select_depots: set of open depot keys
    closed_depots,   \* select_depots: dict closed key -> reason
    site_depot_dists,\* select_depots: dict site id -> depot keys by distance
    current_profit,  \* select_depots: network profit of the committed state
    current_pnl,     \* select_depots: dict depot key -> pnl of the committed state
    iteration,       \* select_depots: loop counter
    worst_key,       \* select_depots: candidate of the running iteration
    reassignments,   \* select_depots: dict site id -> new depot
    old_depots,      \* select_depots: dict site id -> depot before the simulation
    affected,        \* select_depots: len(affected_sites) of the running iteration
    new_profit,      \* select_depots: network profit with the candidate closed
    new_pnl,         \* select_depots: pnl dict with the candidate closed
    iter_start,      \* history: select_depots' state when the iteration began
    day_sites,       \* scheduler input: list of site dicts
    week_number,     \* scheduler input: the week of the plan
    holidays,        \* scheduler input: day indices flagged as holidays
    day_of_week,     \* scheduler: the day of get_weekly_schedule's loop
    is_holiday,      \* scheduler: day in holidays
    day_visits,      \* scheduler: list of visit dicts of the day
    schedule,        \* scheduler output: the visit lists of days 0, 1, ...
    problem,         \* solver: the depot-day handed to main's inner loop
    solution,        \* solver: what SolveWithParameters returned
    vehicle_id,      \* solver: extraction loop counter
    result,          \* solver: the depot-day solution being built / returned
    depot_idx,       \* main: position in depots_to_solve
    solver_calls,    \* history: number of SolveWithParameters invocations
    disjunctions,    \* solver: dict node -> penalty of its AddDisjunction
    search_time_limit,   \* solver: search_params.time_limit, in seconds
    args_solver_time,    \* main: args.solver_time
    config_time_limit,   \* the attribute config.SOLVER_TIME_LIMIT_SECONDS
    solver_time_limit,   \* the name SOLVER_TIME_LIMIT_SECONDS of module solver
    day_results,     \* main: results of the depot-days finished so far
    weekly_results,  \* main: dict day -> depot key -> stats of the depot-day
    depot_pnl,       \* report: dict depot key -> realized statement
    cache_file,      \* google_distance: the keys of the dict stored on disk
    worker_pc,       \* position of each running build_google_matrices
    worker_cache,    \* build_google_matrices: the keys of its dict "cache"
    worker_pairs,    \* build_google_matrices: the keys of its locations' pairs
    fetched          \* history: the keys some invocation got from the provider

selectVars == <<depots, sites, open_depots, closed_depots, site_depot_dists,
                current_profit, current_pnl, iteration, worst_key,
                reassignments, old_depots, affected, new_profit, new_pnl,
                iter_start>>
schedVars == <<day_sites, week_number, holidays, day_of_week, is_holiday,
               day_visits, schedule>>
limitVars == <<args_solver_time, config_time_limit, solver_time_limit>>
modelVars == <<disjunctions, search_time_limit>>
solveVars == <<problem, solution, vehicle_id, result, depot_idx, solver_calls,
               day_results, modelVars, limitVars>>
reportVars == <<weekly_results, depot_pnl>>
cacheVars == <<cache_file, worker_pc, worker_cache, worker_pairs, fetched>>
vars == <<pc, selectVars, schedVars, solveVars, reportVars, cacheVars>>

None == "None"      \* Python's None, for a key or a reference
NoCoord == 0 - 1    \* Python's None, for a latitude that was not resolved
NoDict == << >>     \* the empty dict
\* idle values of the solver's variables
NoProblem == [depot_key |-> None, visits |-> << >>]
NoSolution == [found |-> FALSE, routes |-> << >>, slack |-> 0]
\* no iteration of the closure loop has begun
NoIterStart ==
    [sites |-> << >>, open_depots |-> {}, closed_depots |-> NoDict,
     current_profit |-> 0, current_pnl |-> NoDict]

(***************************************************************************)
(* Bounds of the model.                                                    *)
(***************************************************************************)
MaxSites == 2
MaxVisits == 2

(***************************************************************************)
(* config.py                                                               *)
(***************************************************************************)
TRUCK_LEASE_MONTHLY == 2077
INSURANCE_ANNUAL == 8166
TRUCK_FIXED_ANNUAL == (TRUCK_LEASE_MONTHLY * 12) + INSURANCE_ANNUAL
\* in 1/52000 dollar: (TRUCK_FIXED_ANNUAL / 52) dollars
TRUCK_FIXED_WEEKLY == TRUCK_FIXED_ANNUAL * 1000
\* FUEL_PER_KM + MAINTENANCE_PER_KM + MILEAGE_PER_KM, in 1/1000 dollar per km
VARIABLE_COST_PER_KM == 250 + 50 + 90
DRIVER_WAGE_PER_HOUR == 24
AVERAGE_SPEED_KMH == 40
\* DRIVER_WAGE_PER_HOUR / AVERAGE_SPEED_KMH, in 1/1000 dollar per km
DRIVER_COST_PER_KM == (DRIVER_WAGE_PER_HOUR * 1000) \div AVERAGE_SPEED_KMH
\* int(TRUCK_FIXED_DAILY * 100), in cents
TRUCK_FIXED_COST_SOLVER == (TRUCK_FIXED_ANNUAL * 100) \div 365
TARGET_DAILY_PAYLOAD_LBS == 4000
MAX_SHIFT_HOURS == 12
MAX_SHIFT_MINUTES == MAX_SHIFT_HOURS * 60
TOTAL_BREAK_MINUTES == 60
EFFECTIVE_DRIVING_MINUTES == MAX_SHIFT_MINUTES - TOTAL_BREAK_MINUTES
SERVICE_MINUTES_PER_BIN == 15

\* DEPOTS, in the order of the dict; "lat" is what geocoding gives the
\* depot's address when it succeeds (100 km steps along the meridian)
DepotOrder == <<"wh", "barrie", "london", "ottawa", "hamilton">>
DEPOTS ==
    [k \in {DepotOrder[i] : i \in DOMAIN DepotOrder} |->
        CASE k = "wh"     -> [lat |-> 1, max_trucks |-> 20]
          [] k = "barrie" -> [lat |-> 0, max_trucks |-> 1]
          [] k = "london" -> [lat |-> 3, max_trucks |-> 1]
          [] k = "ottawa" -> [lat |-> 5, max_trucks |-> 2]
          [] k = "hamilton" -> [lat |-> 7, max_trucks |-> 1]]
\* the depots of the depot-selection model
DepotKeys == {"wh", "barrie", "london"}

OrderIndex(k) == CHOOSE i \in DOMAIN DepotOrder : DepotOrder[i] = k

\* The depot dicts the model hands to the pipeline: every sub-dict of DEPOTS,
\* each depot geocoded or not (geocoder leaves lat/lon None on failure).
DepotDicts ==
    UNION {{[k \in K |-> [lat |-> IF k \in G THEN DEPOTS[k].lat ELSE NoCoord,
                          max_trucks |-> DEPOTS[k].max_trucks]]
            : G \in SUBSET K} : K \in SUBSET DepotKeys}

(***************************************************************************)
(* Sites of the depot-selection model.  revenue_per_visit in 1/52000       *)
(* dollar: 40 and 200 dollars.  weekly_visits is that of a Daily site.     *)
(***************************************************************************)
SiteLats == {NoCoord, 0, 2}
SiteRevenues == {40 * 52000, 200 * 52000}
\* beside them, sites of 600 dollars a visit that are visited once a week
SiteRecords(i) ==
    [id : {1, i}, lat : SiteLats, revenue_per_visit : SiteRevenues,
     weekly_visits : {7}, depot : {None}]
    \cup [id : {1, i}, lat : {0, 3}, revenue_per_visit : {600 * 52000},
          weekly_visits : {1}, depot : {None}]
RECURSIVE SiteListsOfLen(_)
SiteListsOfLen(n) ==
    IF n = 0 THEN {<< >>}
    ELSE {Append(l, r) : l \in SiteListsOfLen(n - 1), r \in SiteRecords(n)}
SiteLists == UNION {SiteListsOfLen(n) : n \in 0..MaxSites}

(***************************************************************************)
(* Helpers                                                                 *)
(***************************************************************************)
Abs(x) == IF x < 0 THEN -x ELSE x

RECURSIVE SumOver(_, _)
\* sum of f[x] for x in the finite set S (f a function on S)
SumOver(f, S) ==
    IF S = {} THEN 0
    ELSE LET x == CHOOSE y \in S : TRUE IN f[x] + SumOver(f, S \ {x})

\* depot_selector._haversine_km / main._haversine_km on one meridian, in km
haversine_km(lat1, lat2) == 100 * Abs(lat1 - lat2)

(***************************************************************************)
(* main.assign_depots                                                      *)
(***************************************************************************)
\* the depot assign_depots gives one site: the first depot of depot_list at
\* the least distance (strict <), "wh" when nothing is nearer than infinity
NearestDepot(site, D) ==
    LET depot_list == {k \in DOMAIN D : D[k].lat # NoCoord}
        d(k) == haversine_km(site.lat, D[k].lat)
    IN  IF site.lat = NoCoord \/ depot_list = {} THEN "wh"
        ELSE CHOOSE k \in depot_list :
                \A j \in depot_list :
                    \/ d(k) < d(j)
                    \/ d(k) = d(j) /\ OrderIndex(k) <= OrderIndex(j)

assign_depots(S, D) ==
    [i \in DOMAIN S |-> [S[i] EXCEPT !.depot = NearestDepot(S[i], D)]]

(***************************************************************************)
(* depot_selector                                                          *)
(***************************************************************************)
RECURSIVE SumSeq(_, _)
\* sum of Op(s[i]) over the sequence s
SumSeq(Op(_), s) ==
    IF s = << >> THEN 0 ELSE Op(Head(s)) + SumSeq(Op, Tail(s))

\* (driving_cost + driver_cost) * weekly_visits of one site, in 1/52000 dollar
SiteVariableCost(depot_info, site) ==
    IF site.lat # NoCoord /\ depot_info.lat # NoCoord
    THEN LET dist_km == haversine_km(depot_info.lat, site.lat)
             \* est_km_per_visit = dist_km * 1.3; cost per km in 1/1000 dollar
             per_visit == (dist_km * 13
                           * (VARIABLE_COST_PER_KM + DRIVER_COST_PER_KM)) \div 10
         IN  per_visit * 52 * site.weekly_visits
    ELSE 0

\* the pnl of a depot without assigned sites (depot_selector.py 37-46)
EmptyPnl(depot_key, depot_info) ==
    [depot |-> depot_key, num_sites |-> 0, weekly_revenue |-> 0,
     fixed_cost |-> 0, variable_cost |-> 0, net_profit |-> 0]

estimate_depot_pnl(depot_key, depot_info, assigned_sites) ==
    IF assigned_sites = << >> THEN EmptyPnl(depot_key, depot_info)
    ELSE
    LET fixed_cost == depot_info.max_trucks * TRUCK_FIXED_WEEKLY
        Rev(site) == site.revenue_per_visit * site.weekly_visits
        Var(site) == SiteVariableCost(depot_info, site)
        total_weekly_revenue == SumSeq(Rev, assigned_sites)
        total_variable_cost == SumSeq(Var, assigned_sites)
    IN  [depot |-> depot_key, num_sites |-> Len(assigned_sites),
         weekly_revenue |-> total_weekly_revenue,
         fixed_cost |-> fixed_cost,
         variable_cost |-> total_variable_cost,
         net_profit |-> total_weekly_revenue - fixed_cost - total_variable_cost]

\* list of <<depot_key, distance_km>> sorted by distance; the sort is stable,
\* so equal distances keep the order of depots_dict
get_sorted_depot_distances(site, depots_dict) ==
    LET K == IF site.lat = NoCoord THEN {}
             ELSE {k \in DOMAIN depots_dict : depots_dict[k].lat # NoCoord}
        d(k) == haversine_km(site.lat, depots_dict[k].lat)
        Before(j, k) == \/ d(j) < d(k)
                        \/ d(j) = d(k) /\ OrderIndex(j) < OrderIndex(k)
        Rank(k) == 1 + Cardinality({j \in K : Before(j, k)})
    IN  [r \in 1..Cardinality(K) |->
            LET k == CHOOSE x \in K : Rank(x) = r IN <<k, d(k)>>]

IsOfDepot(k, site) == site.depot = k

get_sites_by_depot(S, open) ==
    [k \in open |-> SelectSeq(S, LAMBDA site : IsOfDepot(k, site))]

compute_network_profit(S, open, D) ==
    LET sites_by_depot == get_sites_by_depot(S, open)
        pnl == [dk \in open |-> estimate_depot_pnl(dk, D[dk], sites_by_depot[dk])]
    IN  [total |-> SumOver([dk \in open |-> pnl[dk].net_profit], open),
         pnl |-> pnl]

SiteIds(S) == {S[i].id : i \in DOMAIN S}
\* a dict keyed by site["id"] keeps what the last site with that id wrote
LastWithId(S, id) ==
    CHOOSE i \in DOMAIN S :
        S[i].id = id /\ \A j \in DOMAIN S : S[j].id = id => j <= i

\* lines 123-125
SiteDepotDists(S, D) ==
    [id \in SiteIds(S) |-> get_sorted_depot_distances(S[LastWithId(S, id)], D)]

CandidatesWithWh(pnl) == DOMAIN pnl

\* line 167: the ranked depots other than the main warehouse
Candidates(pnl) == DOMAIN pnl \ {"wh"}

\* lines 163-171: candidates[0] of the list sorted by net profit.  The sort is
\* stable over the items of current_pnl, a dict filled in the iteration order
\* of the set open_depots, so a tie is broken in any order.
IsWorst(k, pnl) ==
    /\ k \in Candidates(pnl)
    /\ \A j \in Candidates(pnl) : pnl[k].net_profit <= pnl[j].net_profit

\* lines 183-187: the first depot of dists that is open and not the candidate
NewDepot(dists, open, worst) ==
    LET I == {r \in DOMAIN dists : dists[r][1] \in open /\ dists[r][1] # worst}
    IN  IF I = {} THEN None
        ELSE dists[CHOOSE r \in I : \A q \in I : r <= q][1]

\* lines 177-190: site_id -> new_depot for the sites of the candidate
Reassignments(S, dists, open, worst) ==
    LET ids == {S[i].id : i \in {j \in DOMAIN S :
                   /\ S[j].depot = worst
                   /\ NewDepot(dists[S[j].id], open, worst) # None}}
    IN  [id \in ids |-> NewDepot(dists[id], open, worst)]

\* lines 193-196: old_depots as the loop over sites leaves it
OldDepots(S, re) == [id \in DOMAIN re |-> S[LastWithId(S, id)].depot]

\* lines 194-197 and 220-222: site["depot"] = d[site["id"]] where the id is a key
ApplyDepots(S, d) ==
    [i \in DOMAIN S |->
        IF S[i].id \in DOMAIN d THEN [S[i] EXCEPT !.depot = d[S[i].id]]
        ELSE S[i]]

ImprovesOrEqual(new, cur) == new >= cur

\* line 208
Improves(new, cur) == new > cur

(***************************************************************************)
(* Idle values of the variables a specification does not use               *)
(***************************************************************************)
SelectIdle ==
    /\ depots = NoDict /\ sites = << >>
    /\ open_depots = {} /\ closed_depots = NoDict
    /\ site_depot_dists = NoDict
    /\ current_profit = 0 /\ current_pnl = NoDict
    /\ iteration = 0 /\ worst_key = None
    /\ reassignments = NoDict /\ old_depots = NoDict /\ affected = 0
    /\ new_profit = 0 /\ new_pnl = NoDict
    /\ iter_start = NoIterStart
SchedIdle ==
    /\ day_sites = << >> /\ week_number = 0 /\ holidays = {}
    /\ day_of_week = 0 /\ is_holiday = FALSE
    /\ day_visits = << >> /\ schedule = << >>
ReportIdle == weekly_results = << >> /\ depot_pnl = << >>
CacheIdle ==
    /\ cache_file = {} /\ worker_pc = << >> /\ worker_cache = << >>
    /\ worker_pairs = << >> /\ fetched = {}
SolveIdle ==
    /\ problem = NoProblem /\ solution = NoSolution /\ vehicle_id = 0
    /\ result = [routes |-> << >>, dropped |-> << >>,
                 stats |-> [trucks_used |-> 0, total_lbs |-> 0, total_km |-> 0,
                            total_minutes |-> 0, total_cost_cents |-> 0]]
    /\ depot_idx = 0 /\ solver_calls = 0
    /\ day_results = << >>
    /\ disjunctions = NoDict /\ search_time_limit = 0
    /\ args_solver_time = 0 /\ config_time_limit = 0 /\ solver_time_limit = 0

(***************************************************************************)
(* SpecSelect: main steps 3b and 4 (assign_depots, then select_depots)     *)
(***************************************************************************)
InitSelect ==
    /\ pc = "loaded"
    /\ depots \in DepotDicts
    /\ sites \in SiteLists
    /\ open_depots = {} /\ closed_depots = NoDict
    /\ site_depot_dists = NoDict
    /\ current_profit = 0 /\ current_pnl = NoDict
    /\ iteration = 0 /\ worst_key = None
    /\ reassignments = NoDict /\ old_depots = NoDict /\ affected = 0
    /\ new_profit = 0 /\ new_pnl = NoDict
    /\ iter_start = NoIterStart
    /\ SchedIdle /\ SolveIdle /\ ReportIdle /\ CacheIdle

loopLocals == <<worst_key, reassignments, old_depots, affected, new_profit,
                new_pnl, iter_start>>

\* main.py 127
AssignDepots ==
    /\ pc = "loaded"
    /\ sites' = assign_depots(sites, depots)
    /\ pc' = "assigned"
    /\ UNCHANGED <<depots, open_depots, closed_depots, site_depot_dists,
                   current_profit, current_pnl, iteration, loopLocals,
                   schedVars, solveVars, reportVars, cacheVars>>

\* depot_selector.py 119-158
SelectStart ==
    /\ pc = "assigned"
    /\ open_depots' = DOMAIN depots
    /\ closed_depots' = NoDict
    /\ site_depot_dists' = SiteDepotDists(sites, depots)
    /\ LET np == compute_network_profit(sites, DOMAIN depots, depots)
       IN  current_profit' = np.total /\ current_pnl' = np.pnl
    /\ iteration' = 0
    /\ pc' = "loop"
    /\ UNCHANGED <<depots, sites, loopLocals, schedVars, solveVars,
                   reportVars, cacheVars>>

\* 160-164 with an empty current_pnl: ranked[0] raises IndexError
RankRaise ==
    /\ pc = "loop"
    /\ DOMAIN current_pnl = {}
    /\ iteration' = iteration + 1
    /\ pc' = "raised"
    /\ UNCHANGED <<depots, sites, open_depots, closed_depots,
                   site_depot_dists, current_profit, current_pnl, loopLocals,
                   schedVars, solveVars, reportVars, cacheVars>>

\* 160-169: no candidate but the main warehouse: break
RankBreak ==
    /\ pc = "loop"
    /\ DOMAIN current_pnl # {}
    /\ Candidates(current_pnl) = {}
    /\ iteration' = iteration + 1
    /\ pc' = "done"
    /\ UNCHANGED <<depots, sites, open_depots, closed_depots,
                   site_depot_dists, current_profit, current_pnl, loopLocals,
                   schedVars, solveVars, reportVars, cacheVars>>

\* 160-201: pick the candidate, simulate its closure
Simulate ==
    /\ pc = "loop"
    /\ \E k \in DOMAIN current_pnl :
        /\ IsWorst(k, current_pnl)
        /\ worst_key' = k
        /\ iter_start' = [sites |-> sites, open_depots |-> open_depots,
                          closed_depots |-> closed_depots,
                          current_profit |-> current_profit,
                          current_pnl |-> current_pnl]
        /\ LET re == Reassignments(sites, site_depot_dists, open_depots, k)
               moved == ApplyDepots(sites, re)
               np == compute_network_profit(moved, open_depots \ {k}, depots)
           IN  /\ reassignments' = re
               /\ affected' = Cardinality({i \in DOMAIN sites : sites[i].depot = k})
               /\ old_depots' = OldDepots(sites, re)
               /\ sites' = moved
               /\ open_depots' = open_depots \ {k}
               /\ new_profit' = np.total
               /\ new_pnl' = np.pnl
    /\ iteration' = iteration + 1
    /\ pc' = "decide"
    /\ UNCHANGED <<depots, closed_depots, site_depot_dists, current_profit,
                   current_pnl, schedVars, solveVars, reportVars, cacheVars>>

\* a closure that is kept without an entry in closed_depots
CommitUnrecorded ==
    /\ pc = "decide"
    /\ Improves(new_profit, current_profit)
    /\ current_profit' = new_profit
    /\ current_pnl' = new_pnl
    /\ pc' = "loop"
    /\ UNCHANGED <<depots, sites, open_depots, closed_depots,
                   site_depot_dists, iteration, loopLocals, schedVars,
                   solveVars, reportVars, cacheVars>>

\* 208-216: the closure improves the profit: keep it
Commit ==
    /\ pc = "decide"
    /\ Improves(new_profit, current_profit)
    /\ closed_depots' =
         [k \in DOMAIN closed_depots \cup {worst_key} |->
            IF k = worst_key
            THEN [saves |-> new_profit - current_profit,
                  reassigned |-> Cardinality(DOMAIN reassignments)]
            ELSE closed_depots[k]]
    /\ current_profit' = new_profit
    /\ current_pnl' = new_pnl
    /\ pc' = "loop"
    /\ UNCHANGED <<depots, sites, open_depots, site_depot_dists, iteration,
                   loopLocals, schedVars, solveVars, reportVars, cacheVars>>

\* a rejected closure after which the loop goes on
RevertAndContinue ==
    /\ pc = "decide"
    /\ ~Improves(new_profit, current_profit)
    /\ open_depots' = open_depots \cup {worst_key}
    /\ sites' = ApplyDepots(sites, old_depots)
    /\ pc' = "loop"
    /\ UNCHANGED <<depots, closed_depots, site_depot_dists, current_profit,
                   current_pnl, iteration, loopLocals, schedVars, solveVars,
                   reportVars, cacheVars>>

\* 217-224: revert and stop
Revert ==
    /\ pc = "decide"
    /\ ~Improves(new_profit, current_profit)
    /\ open_depots' = open_depots \cup {worst_key}
    /\ sites' = ApplyDepots(sites, old_depots)
    /\ pc' = "done"
    /\ UNCHANGED <<depots, closed_depots, site_depot_dists, current_profit,
                   current_pnl, iteration, loopLocals, schedVars, solveVars,
                   reportVars, cacheVars>>

NextSelect ==
    \/ AssignDepots
    \/ SelectStart
    \/ RankRaise
    \/ RankBreak
    \/ Simulate
    \/ Commit
    \/ Revert

SpecSelect == InitSelect /\ [][NextSelect]_vars

(***************************************************************************)
(* scheduler                                                               *)
(***************************************************************************)
\* config.FREQUENCY_DAY_PATTERNS; D5 maps to None, other codes are absent
HasPattern(freq) == freq \in {"D1", "D2", "D3", "D4"}
FREQUENCY_DAY_PATTERNS_workdays(freq) ==
    CASE freq = "D1" -> {0, 1, 2, 3, 4}
      [] freq = "D2" -> {0, 1, 2, 3, 4}
      [] freq = "D3" -> {1, 3}
      [] freq = "D4" -> {0, 2, 4}

FREQUENCY_DAY_PATTERNS(freq) ==
    CASE freq = "D1" -> {0, 1, 2, 3, 4, 5, 6}
      [] freq = "D2" -> {0, 1, 2, 3, 4, 5, 6}
      [] freq = "D3" -> {1, 3}
      [] freq = "D4" -> {0, 2, 4}

assign_weekly_day_over_workdays(site_id, num_weekdays) == site_id % 5

assign_weekly_day(site_id, num_weekdays) == site_id % num_weekdays

should_visit_recognized_only(site, day) ==
    IF HasPattern(site.frequency)
    THEN day \in FREQUENCY_DAY_PATTERNS(site.frequency)
    ELSE site.frequency = "D5" /\ day = assign_weekly_day(site.id, 7)

\* lines 35-47
should_visit(site, day) ==
    IF HasPattern(site.frequency)
    THEN day \in FREQUENCY_DAY_PATTERNS(site.frequency)
    ELSE day = assign_weekly_day(site.id, 7)

HalfDemandForgotten(demand_lbs) == demand_lbs

\* line 58: site["demand_lbs"] / 2.0 (quarter pounds; exact for a demand that
\* is a multiple of half a pound)
half_demand(demand_lbs) == demand_lbs \div 2

\* lines 56-77: the visit dicts of one site; site_index stands for the
\* reference to the site dict itself
SiteVisits(S, i) ==
    IF S[i].frequency = "D2"
    THEN << [site |-> S[i], site_index |-> i,
             visit_demand_lbs |-> half_demand(S[i].demand_lbs),
             visit_number |-> 1],
            [site |-> S[i], site_index |-> i,
             visit_demand_lbs |-> half_demand(S[i].demand_lbs),
             visit_number |-> 2] >>
    ELSE << [site |-> S[i], site_index |-> i,
             visit_demand_lbs |-> S[i].demand_lbs,
             visit_number |-> 1] >>

holiday_excluded_if_negative(holiday, site) ==
    holiday /\ site.net_contribution_per_visit < 0

\* lines 53-54: on a holiday only a site of positive net contribution is served
holiday_excluded(holiday, site) ==
    holiday /\ site.net_contribution_per_visit <= 0

RECURSIVE DailyFrom(_, _, _, _)
\* the visits appended by the loop of line 30 from site i on
DailyFrom(S, i, day, holiday) ==
    IF i > Len(S) THEN << >>
    ELSE IF ~should_visit(S[i], day) THEN DailyFrom(S, i + 1, day, holiday)
    ELSE IF holiday_excluded(holiday, S[i])
         THEN DailyFrom(S, i + 1, day, holiday)
    ELSE SiteVisits(S, i) \o DailyFrom(S, i + 1, day, holiday)

get_daily_site_list(S, day, holiday) == DailyFrom(S, 1, day, holiday)

(***************************************************************************)
(* SpecSched: get_weekly_schedule, calling get_daily_site_list for each    *)
(* day of the week                                                         *)
(***************************************************************************)
Frequencies == {"D1", "D2", "D3", "D4", "D5", "D9"}
\* demand in quarter pounds (301 lb, 4001 lb), net contribution in cents
SchedProfiles ==
    {[demand_lbs |-> 4 * 301, net |-> 700],
     [demand_lbs |-> 4 * 4001, net |-> 0],
     [demand_lbs |-> 4 * 4001, net |-> 0 - 250]}
\* config.FREQUENCY_MAP
InFrequencyMap(freq_code) == freq_code \in {"D1", "D2", "D3", "D4", "D5"}
FREQUENCY_MAP(freq_code) ==
    CASE freq_code = "D1" -> [annual_visits |-> 364, weekly_visits |-> 7]
      [] freq_code = "D2" -> [annual_visits |-> 728, weekly_visits |-> 14]
      [] freq_code = "D3" -> [annual_visits |-> 104, weekly_visits |-> 2]
      [] freq_code = "D4" -> [annual_visits |-> 156, weekly_visits |-> 3]
      [] freq_code = "D5" -> [annual_visits |-> 52, weekly_visits |-> 1]
\* data_loader.py 57: FREQUENCY_MAP.get(freq_code, FREQUENCY_MAP["D1"])
freq_info(freq_code) ==
    IF InFrequencyMap(freq_code) THEN FREQUENCY_MAP(freq_code)
    ELSE FREQUENCY_MAP("D1")

\* the id only matters to a site without a fixed pattern; the site keeps its
\* frequency code as read, and weekly_visits = freq_info["weekly_visits"]
SchedSiteRecords(i) ==
    {r \in {[id |-> d, frequency |-> f, demand_lbs |-> p.demand_lbs,
             weekly_visits |-> freq_info(f).weekly_visits,
             net_contribution_per_visit |-> p.net] :
                d \in {i, i + 7}, f \in Frequencies, p \in SchedProfiles} :
        HasPattern(r.frequency) => r.id = i}
RECURSIVE SchedSiteListsOfLen(_)
SchedSiteListsOfLen(n) ==
    IF n = 0 THEN {<< >>}
    ELSE {Append(l, r) : l \in SchedSiteListsOfLen(n - 1),
                         r \in SchedSiteRecords(n)}
SchedSiteLists == UNION {SchedSiteListsOfLen(n) : n \in 0..MaxSites}

\* main.py 87-88 and 143: --holidays and --week as given on the command line
HolidaySets == {{}, {1, 2}}
WeekNumbers == {0, 3}

\* scheduler.py 87-89: holidays = holidays or [], schedule = {}, first day
InitSched ==
    /\ pc = "sched"
    /\ day_sites \in SchedSiteLists
    /\ week_number \in WeekNumbers
    /\ holidays \in HolidaySets
    /\ day_of_week = 0
    /\ is_holiday = FALSE
    /\ day_visits = << >>
    /\ schedule = << >>
    /\ SelectIdle /\ SolveIdle /\ ReportIdle /\ CacheIdle

\* scheduler.py 89-91: is_holiday = day in holidays, then the call of
\* get_daily_site_list (which never reads week_number)
DailySiteList ==
    /\ pc = "sched"
    /\ day_of_week < 7
    /\ is_holiday' = (day_of_week \in holidays)
    /\ day_visits' = get_daily_site_list(day_sites, day_of_week,
                                         day_of_week \in holidays)
    /\ pc' = "scheduled"
    /\ UNCHANGED <<day_sites, week_number, holidays, day_of_week, schedule,
                   selectVars, solveVars, reportVars, cacheVars>>

\* scheduler.py 92-95: schedule[day] = day_visits, next day
StoreDay ==
    /\ pc = "scheduled"
    /\ schedule' = Append(schedule, day_visits)
    /\ day_of_week' = day_of_week + 1
    /\ pc' = "sched"
    /\ UNCHANGED <<day_sites, week_number, holidays, is_holiday, day_visits,
                   selectVars, solveVars, reportVars, cacheVars>>

\* scheduler.py 96: return schedule
WeekDone ==
    /\ pc = "sched"
    /\ day_of_week = 7
    /\ pc' = "week_done"
    /\ UNCHANGED <<schedVars, selectVars, solveVars, reportVars, cacheVars>>

NextSched ==
    \/ DailySiteList
    \/ StoreDay
    \/ WeekDone

SpecSched == InitSched /\ [][NextSched]_vars

(***************************************************************************)
(* solver.solve_daily_vrp                                                  *)
(***************************************************************************)
\* Python's round(num / den) for den > 0: nearest integer, ties to even
PyRound(num, den) ==
    LET q == num \div den
        r == num % den
    IN  IF 2 * r < den THEN q
        ELSE IF 2 * r > den THEN q + 1
        ELSE IF q % 2 = 0 THEN q ELSE q + 1

\* line 54: int(round(v["visit_demand_lbs"])), the demand in quarter pounds
NodeDemand(v) == PyRound(v.visit_demand_lbs, 4)

\* lines 44-56: index 0 is the depot, then the visits
NumNodes(P) == 1 + Len(P.visits)
NodeLat(P, n) == IF n = 0 THEN DEPOTS[P.depot_key].lat ELSE P.visits[n].site.lat
demands(P, n) == IF n = 0 THEN 0 ELSE NodeDemand(P.visits[n])
service_times(P, n) ==
    IF n = 0 THEN 0 ELSE P.visits[n].site.service_time_minutes
\* line 124, in 1/10 cent
NodeNet(P, n) == P.visits[n].site.net_contribution_per_visit
num_vehicles(P) == DEPOTS[P.depot_key].max_trucks

\* google_distance.build_google_matrices, Haversine branch (lines 77-91):
\* road distance in km and int(round((d / AVERAGE_SPEED_KMH) * 60)) minutes
dist_matrix(P, i, j) ==
    IF i = j THEN 0 ELSE (haversine_km(NodeLat(P, i), NodeLat(P, j)) * 13) \div 10
time_matrix(P, i, j) ==
    IF i = j THEN 0 ELSE PyRound(dist_matrix(P, i, j) * 60, AVERAGE_SPEED_KMH)
\* distance_matrix.build_cost_matrix, in cents:
\* int(round((dist * VARIABLE_COST_PER_KM + time / 60 * wage) * 100))
cost_matrix(P, i, j) ==
    IF i = j THEN 0
    ELSE PyRound(6 * dist_matrix(P, i, j) * VARIABLE_COST_PER_KM
                 + 100 * time_matrix(P, i, j) * DRIVER_WAGE_PER_HOUR, 60)

\* lines 101-106
time_callback(P, from_node, to_node) ==
    time_matrix(P, from_node, to_node) + service_times(P, from_node)

\* the nodes a vehicle passes: depot, its stops, depot
Path(stops) == <<0>> \o stops \o <<0>>

RECURSIVE SumArcs(_, _, _)
\* sum of Arc(path[i], path[i+1]) from arc i on
SumArcs(Arc(_, _), path, i) ==
    IF i >= Len(path) THEN 0
    ELSE Arc(path[i], path[i + 1]) + SumArcs(Arc, path, i + 1)

RECURSIVE SumNodes(_, _)
SumNodes(Val(_), stops) ==
    IF stops = << >> THEN 0 ELSE Val(Head(stops)) + SumNodes(Val, Tail(stops))

\* lines 188-192 accumulated over the while loop of line 176
RouteLbs(P, stops) == SumNodes(LAMBDA n : demands(P, n), stops)
RouteKm(P, stops) == SumArcs(LAMBDA a, b : dist_matrix(P, a, b), Path(stops), 1)
RouteMinutes(P, stops) ==
    SumArcs(LAMBDA a, b : time_matrix(P, a, b) + service_times(P, a),
            Path(stops), 1)
RouteCost(P, stops) == SumArcs(LAMBDA a, b : cost_matrix(P, a, b), Path(stops), 1)
\* lines 198-201: the sum of net * 100, not rounded; in 1/10 cent
RouteRevenue(P, stops) == SumNodes(LAMBDA n : NodeNet(P, n), stops)
\* line 202: route_cost + TRUCK_FIXED_COST_SOLVER, in 1/10 cent
RouteTotalCost(P, stops) == 10 * (RouteCost(P, stops) + TRUCK_FIXED_COST_SOLVER)

penalty_unclamped(net) == PyRound(net, 10)

\* line 126: max(0, int(round(net * 100))), in cents
penalty(net) ==
    IF PyRound(net, 10) > 0 THEN PyRound(net, 10) ELSE 0

\* lines 122-131: one disjunction for each node but the depot (node 0)
Disjunctions(P) == [n \in 1..Len(P.visits) |-> penalty(NodeNet(P, n))]

(***************************************************************************)
(* The routing library.  SolveWithParameters returns None or an assignment *)
(* that satisfies the model built in lines 74-131: every visit node is on  *)
(* at most one vehicle's route (the others are dropped: NextVar(i) = i),   *)
(* the Capacity dimension (lines 92-98: no slack, capacity                 *)
(* TARGET_DAILY_PAYLOAD_LBS) and the Time dimension (lines 109-115: slack  *)
(* at most 30 at each node, capacity EFFECTIVE_DRIVING_MINUTES, cumul      *)
(* starting at zero).  The search is a heuristic under a time limit, so    *)
(* any such assignment may be returned.  The waiting time is the same at   *)
(* every node of an assignment of the model.                               *)
(***************************************************************************)
TimeSlackMax == 30
TimeCapacityWholeShift == MAX_SHIFT_MINUTES
\* line 112
TimeCapacity == EFFECTIVE_DRIVING_MINUTES
\* line 95
VehicleCapacity == TARGET_DAILY_PAYLOAD_LBS

StopSeqs(N) ==
    UNION {{q \in [1..Cardinality(T) -> T] :
              \A i, j \in 1..Cardinality(T) : i # j => q[i] # q[j]}
           : T \in SUBSET N}

Assignments(P) ==
    LET N == 1..Len(P.visits)
        V == 0..(num_vehicles(P) - 1)
    IN  {a \in [found : {TRUE}, routes : [V -> StopSeqs(N)],
                slack : {0, TimeSlackMax}] :
            /\ \A v, w \in V : v # w =>
                  {a.routes[v][i] : i \in DOMAIN a.routes[v]}
                  \cap {a.routes[w][i] : i \in DOMAIN a.routes[w]} = {}
            /\ \A v \in V :
                  /\ RouteLbs(P, a.routes[v]) <= VehicleCapacity
                  /\ RouteMinutes(P, a.routes[v])
                       + a.slack * (Len(a.routes[v]) + 1) <= TimeCapacity}

Routed(a) ==
    UNION {{a.routes[v][i] : i \in DOMAIN a.routes[v]} : v \in DOMAIN a.routes}

GateDropsWhenNotAbove(revenue, cost) == revenue <= cost

\* line 204
Unprofitable(revenue, cost) == revenue < cost

SeqOfSet(S) ==
    [r \in 1..Cardinality(S) |->
        CHOOSE x \in S : Cardinality({y \in S : y < x}) = r - 1]

ZeroStats ==
    [trucks_used |-> 0, total_lbs |-> 0, total_km |-> 0, total_minutes |-> 0,
     total_cost_cents |-> 0]
EmptySolution == [routes |-> << >>, dropped |-> << >>, stats |-> ZeroStats]

(***************************************************************************)
(* SpecSolve: main's loop over the depots of one day (main.py 171-195),    *)
(* each depot-day solved by solve_daily_vrp                                *)
(***************************************************************************)
depots_to_solve == <<"ottawa", "hamilton">>

\* visit dicts of the solver model: the site at the depot or 100 km from it,
\* net contribution in 1/10 cent (-5.005 dollars, the fixed cost of a truck,
\* 400.015 dollars), and either a demand of 2000.5 lb (in quarter
\* pounds) with one bin to serve or a demand of 2001 lb with 20 bins
\* (service time bins * SERVICE_MINUTES_PER_BIN)
SolveLoads ==
    {[visit_demand_lbs |-> 8002, bins |-> 1],
     [visit_demand_lbs |-> 8004, bins |-> 20]}
SolveNets == {0 - 5005, 10 * TRUCK_FIXED_COST_SOLVER, 400015}
SolveVisits(k) ==
    {[site |-> [lat |-> DEPOTS[k].lat + far,
                service_time_minutes |-> ld.bins * SERVICE_MINUTES_PER_BIN,
                net_contribution_per_visit |-> net],
      visit_demand_lbs |-> ld.visit_demand_lbs] :
        far \in {0, 1}, ld \in SolveLoads, net \in SolveNets}
RECURSIVE SolveVisitListsOfLen(_, _)
SolveVisitListsOfLen(k, n) ==
    IF n = 0 THEN {<< >>}
    ELSE {Append(l, v) : l \in SolveVisitListsOfLen(k, n - 1),
                         v \in SolveVisits(k)}
SolveVisitLists(k) == UNION {SolveVisitListsOfLen(k, n) : n \in 1..MaxVisits}

NoneDropped(num_nodes) == << >>

\* line 149: [visit_refs[i] for i in range(1, num_nodes)]
AllDropped(num_nodes) == [i \in 1..num_nodes |-> i]

SolverDroppedForgotten(P, a) == << >>

\* lines 229-233: the nodes whose NextVar is the node itself, in node order
SolverDropped(P, a) == SeqOfSet((1..Len(P.visits)) \ Routed(a))

\* config.py 145
SOLVER_TIME_LIMIT_SECONDS == 60
\* main.py 83-84: --solver-time as given on the command line, or the default
SolverTimes == {SOLVER_TIME_LIMIT_SECONDS, 120}

\* main is entered with its modules imported: "from config import ..." has
\* bound the name SOLVER_TIME_LIMIT_SECONDS of module solver (solver.py 14-19,
\* run by main.py 26) to the value config holds
InitSolve ==
    /\ pc = "args"
    /\ args_solver_time \in SolverTimes
    /\ config_time_limit = SOLVER_TIME_LIMIT_SECONDS
    /\ solver_time_limit = SOLVER_TIME_LIMIT_SECONDS
    /\ search_time_limit = 0
    /\ disjunctions = NoDict
    /\ depot_idx = 1
    /\ problem = NoProblem /\ solution = NoSolution /\ vehicle_id = 0
    /\ result = EmptySolution /\ solver_calls = 0
    /\ day_results = << >>
    /\ SelectIdle /\ SchedIdle /\ ReportIdle /\ CacheIdle

\* main.py 89-94: the override assigns the attribute of module config
MainArgs ==
    /\ pc = "args"
    /\ config_time_limit' = IF args_solver_time # SOLVER_TIME_LIMIT_SECONDS
                            THEN args_solver_time ELSE config_time_limit
    /\ pc' = "main"
    /\ UNCHANGED <<problem, solution, vehicle_id, result, depot_idx,
                   solver_calls, day_results, modelVars, args_solver_time,
                   solver_time_limit, selectVars, schedVars, reportVars,
                   cacheVars>>

\* the shortcut of main.py 171-180 left out: the solver is called all the same
MainEmptyCallsSolver ==
    /\ pc = "main"
    /\ depot_idx <= Len(depots_to_solve)
    /\ problem' = [depot_key |-> depots_to_solve[depot_idx], visits |-> << >>]
    /\ result' = EmptySolution
    /\ solver_calls' = solver_calls + 1
    /\ day_results' = Append(day_results,
                             [depot |-> depots_to_solve[depot_idx],
                              num_visits |-> 0])
    /\ depot_idx' = depot_idx + 1
    /\ UNCHANGED <<pc, solution, vehicle_id, modelVars, limitVars, selectVars,
                   schedVars, reportVars, cacheVars>>

\* main.py 171-180: no visit for the depot, the solver is not called
MainEmpty ==
    /\ pc = "main"
    /\ depot_idx <= Len(depots_to_solve)
    /\ problem' = [depot_key |-> depots_to_solve[depot_idx], visits |-> << >>]
    /\ result' = EmptySolution
    /\ day_results' = Append(day_results,
                             [depot |-> depots_to_solve[depot_idx],
                              num_visits |-> 0])
    /\ depot_idx' = depot_idx + 1
    /\ UNCHANGED <<pc, solution, vehicle_id, solver_calls, modelVars,
                   limitVars, selectVars, schedVars, reportVars, cacheVars>>

\* main.py 182-185 and solver.py 35-166: the solver returns an assignment
SolveFound ==
    /\ pc = "main"
    /\ depot_idx <= Len(depots_to_solve)
    /\ \E vs \in SolveVisitLists(depots_to_solve[depot_idx]) :
         LET P == [depot_key |-> depots_to_solve[depot_idx], visits |-> vs]
         IN  /\ problem' = P
             /\ disjunctions' = Disjunctions(P)
             /\ solution' \in Assignments(P)
    \* solver.py 141
    /\ search_time_limit' = solver_time_limit
    /\ solver_calls' = solver_calls + 1
    /\ vehicle_id' = 0
    /\ result' = EmptySolution
    /\ pc' = "extract"
    /\ UNCHANGED <<depot_idx, day_results, limitVars, selectVars, schedVars,
                   reportVars, cacheVars>>

\* main.py 182-185 and solver.py 35-157: the solver returns None
SolveNoSolution ==
    /\ pc = "main"
    /\ depot_idx <= Len(depots_to_solve)
    /\ \E vs \in SolveVisitLists(depots_to_solve[depot_idx]) :
         LET P == [depot_key |-> depots_to_solve[depot_idx], visits |-> vs]
         IN  /\ problem' = P
             /\ disjunctions' = Disjunctions(P)
             /\ result' = [routes |-> << >>,
                           dropped |-> AllDropped(Len(vs)),
                           stats |-> ZeroStats]
    \* solver.py 141
    /\ search_time_limit' = solver_time_limit
    /\ solution' = NoSolution
    /\ solver_calls' = solver_calls + 1
    /\ pc' = "returned"
    /\ UNCHANGED <<depot_idx, vehicle_id, day_results, limitVars, selectVars,
                   schedVars, reportVars, cacheVars>>

CurrentStops == solution.routes[vehicle_id]

\* 168-196: the vehicle has no stop
ExtractEmpty ==
    /\ pc = "extract"
    /\ vehicle_id < num_vehicles(problem)
    /\ CurrentStops = << >>
    /\ vehicle_id' = vehicle_id + 1
    /\ UNCHANGED <<pc, problem, solution, result, depot_idx, solver_calls,
                   day_results, modelVars, limitVars, selectVars, schedVars,
                   reportVars, cacheVars>>

\* a discarded route that is counted as a truck all the same
ExtractDiscardCountsTruck ==
    /\ pc = "extract"
    /\ vehicle_id < num_vehicles(problem)
    /\ CurrentStops # << >>
    /\ Unprofitable(RouteRevenue(problem, CurrentStops),
                    RouteTotalCost(problem, CurrentStops))
    /\ result' = [result EXCEPT
                    !.dropped = result.dropped \o CurrentStops,
                    !.stats.trucks_used = result.stats.trucks_used + 1]
    /\ vehicle_id' = vehicle_id + 1
    /\ UNCHANGED <<pc, problem, solution, depot_idx, solver_calls,
                   day_results, modelVars, limitVars, selectVars, schedVars,
                   reportVars, cacheVars>>

\* 168-210: the route does not cover its cost: all its stops are dropped
ExtractDiscard ==
    /\ pc = "extract"
    /\ vehicle_id < num_vehicles(problem)
    /\ CurrentStops # << >>
    /\ Unprofitable(RouteRevenue(problem, CurrentStops),
                    RouteTotalCost(problem, CurrentStops))
    /\ result' = [result EXCEPT !.dropped = result.dropped \o CurrentStops]
    /\ vehicle_id' = vehicle_id + 1
    /\ UNCHANGED <<pc, problem, solution, depot_idx, solver_calls,
                   day_results, modelVars, limitVars, selectVars, schedVars,
                   reportVars, cacheVars>>

\* 168-226: the route is kept
ExtractKeep ==
    /\ pc = "extract"
    /\ vehicle_id < num_vehicles(problem)
    /\ CurrentStops # << >>
    /\ ~Unprofitable(RouteRevenue(problem, CurrentStops),
                     RouteTotalCost(problem, CurrentStops))
    /\ LET route_lbs == RouteLbs(problem, CurrentStops)
           route_km == RouteKm(problem, CurrentStops)
           route_minutes == RouteMinutes(problem, CurrentStops)
           route_cost == RouteCost(problem, CurrentStops)
           route_info ==
               [vehicle_id |-> vehicle_id, stops |-> CurrentStops,
                num_stops |-> Len(CurrentStops), total_lbs |-> route_lbs,
                total_km |-> route_km, total_minutes |-> route_minutes,
                cost_cents |-> route_cost + TRUCK_FIXED_COST_SOLVER]
       IN  result' =
             [result EXCEPT
                !.routes = Append(result.routes, route_info),
                !.stats =
                   [trucks_used |-> result.stats.trucks_used + 1,
                    total_lbs |-> result.stats.total_lbs + route_lbs,
                    total_km |-> result.stats.total_km + route_km,
                    total_minutes |-> result.stats.total_minutes + route_minutes,
                    total_cost_cents |-> result.stats.total_cost_cents
                                         + route_cost + TRUCK_FIXED_COST_SOLVER]]
    /\ vehicle_id' = vehicle_id + 1
    /\ UNCHANGED <<pc, problem, solution, depot_idx, solver_calls,
                   day_results, modelVars, limitVars, selectVars, schedVars,
                   reportVars, cacheVars>>

\* 228-246: the nodes the solver dropped (NextVar(idx) = idx), then return
ExtractDropped ==
    /\ pc = "extract"
    /\ vehicle_id = num_vehicles(problem)
    /\ result' = [result EXCEPT !.dropped =
                    result.dropped \o SolverDropped(problem, solution)]
    /\ pc' = "returned"
    /\ UNCHANGED <<problem, solution, vehicle_id, depot_idx, solver_calls,
                   day_results, modelVars, limitVars, selectVars, schedVars,
                   reportVars, cacheVars>>

\* main.py 186-193: the result is stored, the loop goes on
MainStore ==
    /\ pc = "returned"
    /\ day_results' = Append(day_results,
                             [depot |-> problem.depot_key,
                              num_visits |-> Len(problem.visits)])
    /\ depot_idx' = depot_idx + 1
    \* the locals of solve_daily_vrp are gone
    /\ problem' = NoProblem /\ solution' = NoSolution /\ vehicle_id' = 0
    /\ result' = EmptySolution
    /\ disjunctions' = NoDict /\ search_time_limit' = 0
    /\ pc' = "main"
    /\ UNCHANGED <<solver_calls, limitVars, selectVars, schedVars, reportVars,
                   cacheVars>>

\* main.py 195: weekly_results[day_idx] = day_results
MainDone ==
    /\ pc = "main"
    /\ depot_idx > Len(depots_to_solve)
    /\ pc' = "day_done"
    /\ UNCHANGED <<solveVars, selectVars, schedVars, reportVars, cacheVars>>

NextSolve ==
    \/ MainArgs
    \/ MainEmpty
    \/ SolveFound
    \/ SolveNoSolution
    \/ ExtractEmpty
    \/ ExtractDiscard
    \/ ExtractKeep
    \/ ExtractDropped
    \/ MainStore
    \/ MainDone

SpecSolve == InitSolve /\ [][NextSolve]_vars

(***************************************************************************)
(* report.print_depot_pnl: the realized statement of each open depot,      *)
(* money in 1/52000 dollar, hours in minutes                               *)
(***************************************************************************)
\* config.REVENUE_PER_LB, 0.30 dollar
REVENUE_PER_LB == (30 * 52000) \div 100
\* DRIVER_WAGE_PER_HOUR for one minute
WagePerMinute == (DRIVER_WAGE_PER_HOUR * 52000) \div 60
\* FUEL_PER_KM + MAINTENANCE_PER_KM + MILEAGE_PER_KM
VehicleCostPerKm == VARIABLE_COST_PER_KM * 52

\* sorted(open_depots): the rank of a key in alphabetical order
SortedKeys == <<"barrie", "hamilton", "london", "ottawa", "wh">>
SortIndex(k) == CHOOSE i \in DOMAIN SortedKeys : SortedKeys[i] = k

\* lines 241-244: the days of weekly_results that hold a result of the depot
DaysWithResult(W, k) == {d \in DOMAIN W : k \in DOMAIN W[d]}

\* lines 245-248: the sum of one statistic of the depot over the week
DepotTotal(W, k, stat) ==
    SumOver([d \in DaysWithResult(W, k) |-> W[d][k][stat]], DaysWithResult(W, k))

depot_truck_days(W, k) == DepotTotal(W, k, "trucks_used")

\* lines 239 and 249: the running maximum of trucks_used, from 0
depot_trucks_max(W, k) ==
    LET T == {W[d][k].trucks_used : d \in DaysWithResult(W, k)} \cup {0}
    IN  CHOOSE t \in T : \A u \in T : u <= t

\* lines 251-283: the statement of one depot
DepotStatement(W, k) ==
    LET depot_lbs == DepotTotal(W, k, "total_lbs")
        depot_km == DepotTotal(W, k, "total_km")
        depot_minutes == DepotTotal(W, k, "total_minutes")
        fleet == depot_trucks_max(W, k)
        revenue == depot_lbs * REVENUE_PER_LB
        variable_vehicle == depot_km * VehicleCostPerKm
        driver_cost == depot_minutes * WagePerMinute
        fixed_cost == TRUCK_FIXED_WEEKLY * fleet
        total_cost == driver_cost + variable_vehicle + fixed_cost
        net_profit == revenue - total_cost
    IN  [status |-> IF net_profit < 0 THEN "MARGINAL" ELSE "KEEP",
         lbs |-> depot_lbs, km |-> depot_km, hours |-> depot_minutes,
         trucks |-> fleet, revenue |-> revenue, driver_cost |-> driver_cost,
         variable_vehicle |-> variable_vehicle, fixed_cost |-> fixed_cost,
         total_cost |-> total_cost, net_profit |-> net_profit]

(***************************************************************************)
(* SpecReport: main step 8 (main.py 209-211), print_depot_pnl on the       *)
(* results of a solved week                                                *)
(***************************************************************************)
\* the statistics of a depot-day: nothing to do, or every truck of the depot
\* out for 650 minutes (the main warehouse sends two trucks for little weight)
StatsChoices(k) ==
    IF k = "wh"
    THEN {ZeroStats,
          [trucks_used |-> 2, total_lbs |-> 1000, total_km |-> 300,
           total_minutes |-> 1300, total_cost_cents |-> 81830]}
    ELSE {ZeroStats,
          [trucks_used |-> 1, total_lbs |-> 3900, total_km |-> 260,
           total_minutes |-> 650, total_cost_cents |-> 45205]}

\* main.py 150: days_to_solve = range(7)
DaysToSolve == 0..6

DayResults(open) ==
    {r \in [open -> UNION {StatsChoices(k) : k \in open}] :
        \A k \in open : r[k] \in StatsChoices(k)}

WeeklyResults(open) == [DaysToSolve -> DayResults(open)]

ReportOpenSets == {{"wh"}, {"wh", "barrie"}}

ReportSites ==
    {<< >>} \cup
    {<<[id |-> 1, lat |-> l, revenue_per_visit |-> 40 * 52000,
        weekly_visits |-> 7, depot |-> "wh"]>> : l \in SiteLats \ {NoCoord}}

\* the state of main after the loop of lines 166-195
InitReport ==
    /\ pc = "solved"
    /\ depots = [k \in DepotKeys |-> DEPOTS[k]]
    /\ open_depots \in ReportOpenSets
    /\ closed_depots = [k \in DepotKeys \ open_depots |->
                          [saves |-> TRUCK_FIXED_WEEKLY, reassigned |-> 0]]
    /\ sites \in ReportSites
    /\ weekly_results \in WeeklyResults(open_depots)
    /\ depot_pnl = << >>
    /\ site_depot_dists = NoDict
    /\ current_profit = 0 /\ current_pnl = NoDict
    /\ iteration = 0 /\ worst_key = None
    /\ reassignments = NoDict /\ old_depots = NoDict /\ affected = 0
    /\ new_profit = 0 /\ new_pnl = NoDict
    /\ iter_start = NoIterStart
    /\ SchedIdle /\ SolveIdle /\ CacheIdle

\* report.py 235-285 with the depot's net profit negative: the next depot of
\* sorted(open_depots) is closed on its realized loss
PnlDepotClosing ==
    /\ pc = "solved"
    /\ \E k \in open_depots \ DOMAIN depot_pnl :
        /\ \A j \in open_depots \ DOMAIN depot_pnl : SortIndex(k) <= SortIndex(j)
        /\ depot_pnl' = [j \in DOMAIN depot_pnl \cup {k} |->
                            IF j = k THEN DepotStatement(weekly_results, k)
                            ELSE depot_pnl[j]]
        /\ open_depots' = IF DepotStatement(weekly_results, k).net_profit < 0
                          THEN open_depots \ {k} ELSE open_depots
    /\ UNCHANGED <<pc, depots, sites, closed_depots, site_depot_dists,
                   current_profit, current_pnl, iteration, loopLocals,
                   weekly_results, schedVars, solveVars, cacheVars>>

\* report.py 235-285: one iteration of the loop over sorted(open_depots)
PnlDepot ==
    /\ pc = "solved"
    /\ \E k \in open_depots \ DOMAIN depot_pnl :
        /\ \A j \in open_depots \ DOMAIN depot_pnl : SortIndex(k) <= SortIndex(j)
        /\ depot_pnl' = [j \in DOMAIN depot_pnl \cup {k} |->
                            IF j = k THEN DepotStatement(weekly_results, k)
                            ELSE depot_pnl[j]]
    /\ UNCHANGED <<pc, selectVars, weekly_results, schedVars, solveVars,
                   cacheVars>>

\* report.py 287-299: the closed depots and the network total, then return
PnlReturn ==
    /\ pc = "solved"
    /\ open_depots \subseteq DOMAIN depot_pnl
    /\ pc' = "reported"
    /\ UNCHANGED <<selectVars, schedVars, solveVars, reportVars, cacheVars>>

NextReport ==
    \/ PnlDepot
    \/ PnlReturn

SpecReport == InitReport /\ [][NextReport]_vars

(***************************************************************************)
(* SpecCache: build_google_matrices, on the branch that uses the provider  *)
(* (google_works, lines 93-203), run by processes that share the file at   *)
(* DISTANCE_CACHE_PATH.  A cache dict is modelled by the set of its keys.  *)
(***************************************************************************)
NumWorkers == 2
Workers == 1..NumWorkers
\* _cache_key of the ordered pairs of three locations
CacheKeys == {"a|b", "b|a", "a|c"}

\* lines 26-30: the dict read from the file
load_distance_cache == cache_file

\* lines 96-107: the pairs of the locations that are not in the cache
pairs_needed(w) == worker_pairs[w] \ worker_cache[w]

InitCache ==
    /\ pc = "routing"
    /\ cache_file \in {{}, {"a|c"}}
    /\ worker_pc = [w \in Workers |-> "start"]
    /\ worker_cache = [w \in Workers |-> {}]
    /\ worker_pairs \in [Workers -> (SUBSET CacheKeys) \ {{}}]
    /\ fetched = {}
    /\ SelectIdle /\ SchedIdle /\ SolveIdle /\ ReportIdle

\* lines 93-111: load the cache, fill the matrices from it, and return when
\* no pair is missing
CacheLoad(w) ==
    /\ worker_pc[w] = "start"
    /\ worker_cache' = [worker_cache EXCEPT ![w] = load_distance_cache]
    /\ worker_pc' = [worker_pc EXCEPT ![w] =
                        IF worker_pairs[w] \subseteq load_distance_cache
                        THEN "returned" ELSE "fetching"]
    /\ UNCHANGED <<pc, cache_file, worker_pairs, fetched, selectVars,
                   schedVars, solveVars, reportVars>>

\* lines 113-198: the missing pairs are requested; an element whose status is
\* OK is stored in the dict "cache", any other gets the Haversine estimate and
\* is not stored (so is a whole batch that raised).  Fewer than 500 pairs are
\* fetched, so the periodic save of line 197 does not run.
CacheFetch(w) ==
    /\ worker_pc[w] = "fetching"
    /\ \E ok \in SUBSET pairs_needed(w) :
          /\ worker_cache' = [worker_cache EXCEPT ![w] = worker_cache[w] \cup ok]
          /\ fetched' = fetched \cup ok
    /\ worker_pc' = [worker_pc EXCEPT ![w] = "fetched"]
    /\ UNCHANGED <<pc, cache_file, worker_pairs, selectVars, schedVars,
                   solveVars, reportVars>>

\* lines 200-203 and 33-35: the dict "cache" replaces the content of the file
CacheSave(w) ==
    /\ worker_pc[w] = "fetched"
    /\ cache_file' = worker_cache[w]
    /\ worker_pc' = [worker_pc EXCEPT ![w] = "returned"]
    /\ UNCHANGED <<pc, worker_cache, worker_pairs, fetched, selectVars,
                   schedVars, solveVars, reportVars>>

NextCache ==
    \E w \in Workers :
        \/ CacheLoad(w)
        \/ CacheFetch(w)
        \/ CacheSave(w)

SpecCache == InitCache /\ [][NextCache]_vars

(***************************************************************************)
(* Claims                                                                  *)
(***************************************************************************)
InClosureLoop == pc \in {"loop", "decide", "done"}

\* C1: in every state of the closure loop of select_depots and at return,
\* the main warehouse "wh" (when it is a depot at all) is in open_depots and
\* is not a key of closed_depots.
C1_WhNeverClosed ==
    (InClosureLoop /\ "wh" \in DOMAIN depots) =>
        ("wh" \in open_depots /\ "wh" \notin DOMAIN closed_depots)

\* a closure is being decided while "wh" has the lowest estimate of all
C1_Witness ==
    /\ pc = "decide"
    /\ "wh" \in DOMAIN current_pnl
    /\ worst_key # "wh"
    /\ \A j \in DOMAIN current_pnl \ {"wh"} :
          current_pnl["wh"].net_profit < current_pnl[j].net_profit

\* C2: every step that adds a depot to closed_depots strictly increases
\* current_profit, to the network profit computed with that depot closed.
C2_ClosureImproves ==
    [][DOMAIN closed_depots' # DOMAIN closed_depots =>
          /\ new_profit > current_profit
          /\ current_profit' = new_profit
          /\ current_profit' > current_profit]_vars

\* two closures were committed one after the other
C2_Witness == pc = "loop" /\ Cardinality(DOMAIN closed_depots) = 2

\* the visits on the returned routes, route after route
RECURSIVE RouteStops(_)
RouteStops(routes) ==
    IF routes = << >> THEN << >>
    ELSE Head(routes).stops \o RouteStops(Tail(routes))

Accounted(res) == RouteStops(res.routes) \o res.dropped

C4_PayloadCap ==
    pc = "returned" =>
        \A r \in DOMAIN result.routes :
            SumNodes(LAMBDA n : problem.visits[n].visit_demand_lbs,
                     result.routes[r].stops)
              <= 4 * TARGET_DAILY_PAYLOAD_LBS

\* C5: every returned route has total_minutes <= EFFECTIVE_DRIVING_MINUTES,
\* and the waiting of the assignment is at most 30 minutes at a node.
C5_TimeBudget ==
    pc = "returned" =>
        /\ \A r \in DOMAIN result.routes :
              result.routes[r].total_minutes <= EFFECTIVE_DRIVING_MINUTES
        /\ solution.slack <= 30

\* a kept route of more than 400 minutes in an assignment that waits
C5_Witness ==
    /\ pc = "returned"
    /\ solution.slack = 30
    /\ \E r \in DOMAIN result.routes : result.routes[r].total_minutes > 400

\* C6 (as claimed): a closure candidate without assigned sites and with at
\* least one truck ends in closed_depots once its evaluation is decided.
C6_EmptyDepotClosed ==
    (/\ pc \in {"loop", "done"}
     /\ worst_key # None
     /\ affected = 0
     /\ depots[worst_key].max_trucks >= 1)
        => worst_key \in DOMAIN closed_depots

StopSet(stops) == {stops[i] : i \in DOMAIN stops}

\* C7: at return, a vehicle route of the assignment whose arc costs plus the
\* fixed vehicle cost exceed the net contribution of its stops has all its
\* stops in the dropped list and none in a returned route; any other vehicle
\* route with stops is returned with exactly its stops.
C7_ProfitabilityGate ==
    (pc = "returned" /\ solution.found) =>
        \A v \in DOMAIN solution.routes :
            LET stops == solution.routes[v]
                cost == 10 * (RouteCost(problem, stops) + TRUCK_FIXED_COST_SOLVER)
                revenue == RouteRevenue(problem, stops)
            IN  stops # << >> =>
                  IF cost > revenue
                  THEN /\ StopSet(stops) \subseteq StopSet(result.dropped)
                       /\ StopSet(stops)
                            \cap StopSet(RouteStops(result.routes)) = {}
                  ELSE \E r \in DOMAIN result.routes :
                          /\ result.routes[r].vehicle_id = v
                          /\ result.routes[r].stops = stops

\* a route of two stops was discarded as a whole
C7_Witness ==
    /\ pc = "returned" /\ solution.found
    /\ \E v \in DOMAIN solution.routes :
          /\ Len(solution.routes[v]) = 2
          /\ 10 * (RouteCost(problem, solution.routes[v])
                   + TRUCK_FIXED_COST_SOLVER)
               > RouteRevenue(problem, solution.routes[v])
          /\ StopSet(solution.routes[v]) \subseteq StopSet(result.dropped)

C9_EmptyDepotDay ==
    /\ (pc = "main" /\ problem.depot_key # None) =>
          /\ problem.visits = << >>
          /\ result.routes = << >> /\ result.dropped = << >>
          /\ result.stats.trucks_used = 0
          /\ result.stats.total_lbs = 0
          /\ result.stats.total_km = 0
          /\ result.stats.total_minutes = 0
          /\ result.stats.total_cost_cents = 0
    /\ solver_calls =
          Cardinality({i \in DOMAIN day_results : day_results[i].num_visits > 0})
          + (IF pc \in {"extract", "returned"} THEN 1 ELSE 0)

\* the second depot has no visit after the first one was solved
C9_Witness ==
    /\ pc = "main"
    /\ problem.depot_key = "hamilton" /\ problem.visits = << >>
    /\ solver_calls = 1

VisitsOf(i) == {j \in DOMAIN day_visits : day_visits[j].site_index = i}

\* C10: on a day on which it is scheduled a D2 site has exactly two visits,
\* numbered 1 and 2, each with half its nominal demand; a site of any other
\* frequency has at most one visit, numbered 1, with its nominal demand.
C10_TwiceDaily ==
    pc = "scheduled" =>
        \A i \in DOMAIN day_sites :
            LET site == day_sites[i]
                V == VisitsOf(i)
                scheduled ==
                    /\ should_visit(site, day_of_week)
                    /\ ~(is_holiday /\ site.net_contribution_per_visit <= 0)
            IN  IF site.frequency = "D2"
                THEN /\ Cardinality(V) = IF scheduled THEN 2 ELSE 0
                     /\ scheduled =>
                          /\ {day_visits[j].visit_number : j \in V} = {1, 2}
                          /\ \A j \in V :
                                2 * day_visits[j].visit_demand_lbs
                                    = site.demand_lbs
                          /\ SumOver([j \in V |-> day_visits[j].visit_demand_lbs], V)
                                = site.demand_lbs
                ELSE /\ Cardinality(V) <= 1
                     /\ \A j \in V :
                          /\ day_visits[j].visit_number = 1
                          /\ day_visits[j].visit_demand_lbs = site.demand_lbs

\* a D2 site of 4001 lb and a site of another frequency are both visited
C10_Witness ==
    /\ pc = "scheduled"
    /\ \E i, k \in DOMAIN day_sites :
          /\ day_sites[i].frequency = "D2"
          /\ day_sites[i].demand_lbs = 4 * 4001
          /\ Cardinality(VisitsOf(i)) = 2
          /\ day_sites[k].frequency # "D2"
          /\ Cardinality(VisitsOf(k)) = 1

\* the visits of site i in the stored list of day d
VisitsOn(i, d) ==
    {j \in DOMAIN schedule[d + 1] : schedule[d + 1][j].site_index = i}

\* the days of the stored schedule that hold a visit of site i
DaysOf(i) == {d \in 0..(Len(schedule) - 1) : VisitsOn(i, d) # {}}

\* C11: in the weekly schedule built without holidays, every weekly (D5) site
\* is on exactly one day, the day (identifier mod 7), whatever the other
\* sites of the list and the week number are.
C11_WeeklyDay ==
    (pc = "week_done" /\ holidays = {}) =>
        \A i \in DOMAIN day_sites :
            day_sites[i].frequency = "D5" =>
                /\ DaysOf(i) = {day_sites[i].id % 7}
                /\ \A d \in DaysOf(i) : Cardinality(VisitsOn(i, d)) = 1

\* a weekly site with identifier 8 is on day 1 of a schedule of week 3
C11_Witness ==
    /\ pc = "week_done" /\ holidays = {} /\ week_number = 3
    /\ \E i \in DOMAIN day_sites :
          /\ day_sites[i].frequency = "D5"
          /\ day_sites[i].id = 8
          /\ DaysOf(i) = {1}

\* C12: on a holiday the day's schedule holds no site of zero or negative net
\* contribution and holds every site of positive net contribution that its
\* frequency rule puts on that day; on any other day the schedule holds
\* exactly the sites of the frequency rule, whatever their net contribution.
C12_HolidayFilter ==
    pc = "week_done" =>
        \A d \in 0..6 : \A i \in DOMAIN day_sites :
            (VisitsOn(i, d) # {}) <=>
                /\ should_visit(day_sites[i], d)
                /\ d \in holidays => day_sites[i].net_contribution_per_visit > 0

\* on holiday 1 a Daily site of net contribution zero is left out and one of
\* positive net contribution is served; the first is served on day 0
C12_Witness ==
    /\ pc = "week_done" /\ 1 \in holidays
    /\ \E i, k \in DOMAIN day_sites :
          /\ day_sites[i].frequency = "D1"
          /\ day_sites[i].net_contribution_per_visit = 0
          /\ VisitsOn(i, 1) = {} /\ VisitsOn(i, 0) # {}
          /\ day_sites[k].net_contribution_per_visit > 0
          /\ VisitsOn(k, 1) # {}

\* C13: a site of a fixed weekday pattern is in the schedule of a day that is
\* not a holiday exactly when the day is of its pattern: the 7 days for Daily
\* (D1) and TwiceDaily (D2), two fixed days for TwiceWeekly (D3), three fixed
\* days for ThriceWeekly (D4).
C13_FixedPatterns ==
    pc = "week_done" =>
        \A i \in DOMAIN day_sites :
            LET f == day_sites[i].frequency
                on == DaysOf(i) \ holidays
                off == (0..6) \ holidays
            IN  /\ f \in {"D1", "D2"} => on = off
                /\ f = "D3" => on = {1, 3} \cap off
                /\ f = "D4" => on = {0, 2, 4} \cap off

\* a week without holidays with a TwiceWeekly and a ThriceWeekly site
C13_Witness ==
    /\ pc = "week_done" /\ holidays = {}
    /\ \E i, k \in DOMAIN day_sites :
          /\ day_sites[i].frequency = "D3" /\ Cardinality(DaysOf(i)) = 2
          /\ day_sites[k].frequency = "D4" /\ Cardinality(DaysOf(k)) = 3

Recognized == {"D1", "D2", "D3", "D4", "D5"}

\* every stored visit of site i is a single visit of its day, numbered 1, with
\* the nominal demand of the site
SingleFullVisits(i) ==
    \A d \in DaysOf(i) :
        /\ Cardinality(VisitsOn(i, d)) = 1
        /\ \A j \in VisitsOn(i, d) :
              /\ schedule[d + 1][j].visit_number = 1
              /\ schedule[d + 1][j].visit_demand_lbs = day_sites[i].demand_lbs

\* C14 (as claimed): a site of an unrecognized frequency code is in the
\* weekly schedule on exactly one day, the day (identifier mod 7), with a
\* single visit of its nominal demand.
C14_UnknownFrequencyOneDay ==
    pc = "week_done" =>
        \A i \in DOMAIN day_sites :
            day_sites[i].frequency \notin Recognized =>
                /\ DaysOf(i) = {day_sites[i].id % 7}
                /\ SingleFullVisits(i)

\* C14 (amended): a site of an unrecognized frequency code is scheduled by
\* the weekly rule: on the day (identifier mod 7) and on no other, with a
\* single visit of its nominal demand, unless that day is a holiday and the
\* net contribution of the site is zero or negative, when it is on no day.
C14_UnknownFrequencyWeeklyRule ==
    pc = "week_done" =>
        \A i \in DOMAIN day_sites :
            day_sites[i].frequency \notin Recognized =>
                /\ DaysOf(i) =
                     IF /\ (day_sites[i].id % 7) \in holidays
                        /\ day_sites[i].net_contribution_per_visit <= 0
                     THEN {}
                     ELSE {day_sites[i].id % 7}
                /\ SingleFullVisits(i)

\* a site of code D9 with identifier 8 and 301 lb is on day 1 only, and
\* another one of net contribution zero is left out of holiday 2
C14_Witness ==
    /\ pc = "week_done" /\ holidays = {1, 2}
    /\ \E i, k \in DOMAIN day_sites :
          /\ day_sites[i].frequency = "D9" /\ day_sites[i].id = 8
          /\ day_sites[i].demand_lbs = 4 * 301
          /\ DaysOf(i) = {1}
          /\ day_sites[k].frequency = "D9" /\ day_sites[k].id % 7 = 2
          /\ DaysOf(k) = {}

\* C15: in the statement print_depot_pnl returns, the fixed cost of every open
\* depot is the largest trucks_used of its days times the weekly fixed cost of
\* a truck, its net profit is revenue minus (driver cost + vehicle variable
\* cost + fixed cost), and a depot without a truck on any day has fixed cost 0.
C15_PeakFleetFixedCost ==
    pc = "reported" =>
        \A k \in open_depots :
            LET p == depot_pnl[k]
                used == {weekly_results[d][k].trucks_used : d \in DaysToSolve}
            IN  /\ p.trucks \in used
                /\ \A u \in used : u <= p.trucks
                /\ p.fixed_cost = p.trucks * TRUCK_FIXED_WEEKLY
                /\ p.net_profit = p.revenue - (p.driver_cost
                                     + p.variable_vehicle + p.fixed_cost)
                /\ used = {0} => p.fixed_cost = 0

\* the main warehouse sent two trucks on three days and is charged for two,
\* and barrie, which sent none, is charged nothing
C15_Witness ==
    /\ pc = "reported"
    /\ open_depots = {"wh", "barrie"}
    /\ Cardinality({d \in DaysToSolve :
                       weekly_results[d]["wh"].trucks_used = 2}) = 3
    /\ depot_pnl["wh"].fixed_cost = 2 * TRUCK_FIXED_WEEKLY
    /\ \A d \in DaysToSolve : weekly_results[d]["barrie"].trucks_used = 0
    /\ depot_pnl["barrie"].fixed_cost = 0

\* config.OT_WEEKLY_THRESHOLD_HOURS
OT_WEEKLY_THRESHOLD_HOURS == 44

\* the minutes of a depot above the weekly threshold, its driven minutes being
\* spread evenly over its peak number of trucks (report.py 127-128)
OvertimeMinutes(minutes, fleet) ==
    IF fleet > 0 /\ minutes > fleet * OT_WEEKLY_THRESHOLD_HOURS * 60
    THEN minutes - fleet * OT_WEEKLY_THRESHOLD_HOURS * 60
    ELSE 0

\* C16 (as claimed): the driver cost of a depot's statement charges the hours
\* per truck above the weekly overtime threshold at wage times OT_MULTIPLIER
\* (1.5) and the remaining hours at the plain wage.
C16_DriverCostWithOvertime ==
    pc = "reported" =>
        \A k \in open_depots :
            LET p == depot_pnl[k]
                ot == OvertimeMinutes(p.hours, p.trucks)
            IN  p.driver_cost = (p.hours - ot) * WagePerMinute
                                + (ot * WagePerMinute * 3) \div 2

\* C17: no step of print_depot_pnl changes open_depots, closed_depots, the
\* sites' depot assignments or the weekly results; a depot of negative
\* realized net profit is only flagged in the status field of its statement.
C17_ReportLeavesDecision ==
    [][pc = "solved" =>
          /\ open_depots' = open_depots
          /\ closed_depots' = closed_depots
          /\ sites' = sites
          /\ weekly_results' = weekly_results
          /\ \A k \in DOMAIN depot_pnl' :
                (depot_pnl'[k].status = "MARGINAL")
                    <=> (depot_pnl'[k].net_profit < 0)]_vars

\* the report is done, the main warehouse made a loss, is flagged and is open
C17_Witness ==
    /\ pc = "reported"
    /\ "wh" \in open_depots /\ "wh" \notin DOMAIN closed_depots
    /\ depot_pnl["wh"].net_profit < 0
    /\ depot_pnl["wh"].status = "MARGINAL"
    /\ sites # << >>

\* C18 (as claimed): select_depots never raises an exception, whatever the
\* depot dict (empty, without "wh", every closable depot closed) and the
\* sites are.
C18_SelectNeverRaises == pc # "raised"

\* the input of a pipeline run: main hands select_depots the whole of DEPOTS,
\* and get_coordinates keeps only the sites with coordinates
PipelineInput ==
    /\ DOMAIN depots = DepotKeys
    /\ \A i \in DOMAIN sites : sites[i].lat # NoCoord

\* C19 (as claimed): in a pipeline run, after assign_depots and through
\* select_depots, no site is assigned to a depot of the dict that has no
\* coordinates, so that no open depot without coordinates has a visit to
\* hand to the routing engine.
C19_NoSiteAtUnresolvedDepot ==
    (PipelineInput /\ pc \in {"assigned", "loop", "decide", "done"}) =>
        \A i \in DOMAIN sites :
            sites[i].depot \in DOMAIN depots =>
                depots[sites[i].depot].lat # NoCoord

\* select_depots returned after it rejected the closure of worst_key
Rejected ==
    pc = "done" /\ worst_key # None /\ worst_key \notin DOMAIN closed_depots

\* C20 (as claimed): when select_depots returns after a closure that did not
\* strictly increase the network profit, open_depots, closed_depots, the
\* current profit, the per-depot snapshot and the depot of every site are
\* what they were when that iteration began, and no depot is evaluated after.
C20_RevertComplete ==
    Rejected =>
        /\ open_depots = iter_start.open_depots
        /\ closed_depots = iter_start.closed_depots
        /\ current_profit = iter_start.current_profit
        /\ current_pnl = iter_start.current_pnl
        /\ sites = iter_start.sites
        /\ ~ENABLED Simulate

\* the depots with coordinates that are open beside the candidate when the
\* closure of iter_start's iteration is simulated
StillOpen == {k \in iter_start.open_depots \ {worst_key} : depots[k].lat # NoCoord}

\* the sites of the candidate that no depot can take over
Orphaned ==
    {i \in DOMAIN sites :
        /\ iter_start.sites[i].depot = worst_key
        /\ (StillOpen = {} \/ iter_start.sites[i].lat = NoCoord)}

\* C21 (as claimed): when a closure has been simulated, the candidate is an
\* open depot other than "wh" of lowest estimated net profit; every site of
\* the candidate is at the still-open depot nearest to it, or keeps the
\* candidate when there is none, and is then counted as orphaned and left out
\* of the simulated profit; every other site keeps its depot.
C21_SimulatedClosure ==
    pc = "decide" =>
        /\ worst_key \in iter_start.open_depots \ {"wh"}
        /\ \A j \in iter_start.open_depots \ {"wh"} :
              iter_start.current_pnl[worst_key].net_profit
                  <= iter_start.current_pnl[j].net_profit
        /\ \A i \in DOMAIN sites :
              IF iter_start.sites[i].depot # worst_key
              THEN sites[i].depot = iter_start.sites[i].depot
              ELSE IF i \in Orphaned
              THEN sites[i].depot = worst_key
              ELSE /\ sites[i].depot \in StillOpen
                   /\ \A j \in StillOpen :
                         haversine_km(sites[i].lat, depots[sites[i].depot].lat)
                             <= haversine_km(sites[i].lat, depots[j].lat)
        /\ affected - Cardinality(DOMAIN reassignments) = Cardinality(Orphaned)
        /\ new_profit =
              compute_network_profit(
                  SelectSeq(sites, LAMBDA site : site.depot # worst_key),
                  iter_start.open_depots \ {worst_key}, depots).total

\* what select_depots can return from a state at the top of its loop: the
\* site-to-depot assignment, the open set and the closed set of every run of
\* lines 159-224, a tie of the ranking being broken either way
RECURSIVE Outcomes(_, _, _, _, _)
Outcomes(S, open, closed, profit, pnl) ==
    IF Candidates(pnl) = {}
    THEN {[depot |-> [i \in DOMAIN S |-> S[i].depot], open_depots |-> open,
           closed_depots |-> closed]}
    ELSE UNION {
        LET re == Reassignments(S, site_depot_dists, open, k)
            moved == ApplyDepots(S, re)
            np == compute_network_profit(moved, open \ {k}, depots)
        IN  IF Improves(np.total, profit)
            THEN Outcomes(moved, open \ {k}, closed \cup {k}, np.total, np.pnl)
            ELSE {[depot |-> [i \in DOMAIN S |->
                                ApplyDepots(moved, OldDepots(S, re))[i].depot],
                   open_depots |-> open, closed_depots |-> closed]}
        : k \in {j \in DOMAIN pnl : IsWorst(j, pnl)}}

\* C22 (as claimed): assign_depots followed by select_depots has one outcome
\* for given sites and depots: when the closure loop begins, every run from
\* there ends with the same assignment, the same open and the same closed set.
C22_Deterministic ==
    (pc = "loop" /\ iteration = 0) =>
        Cardinality(Outcomes(sites, open_depots, DOMAIN closed_depots,
                             current_profit, current_pnl)) <= 1

\* C23: in the routing model of a depot-day every visit node, and no other
\* node (so not the depot, node 0), has a disjunction; its penalty is never
\* negative, is 0 for a visit of net contribution <= 0, and for a visit of
\* positive net contribution is that contribution in cents, to the nearest
\* cent.
C23_DropPenalties ==
    pc \in {"extract", "returned"} =>
        /\ DOMAIN disjunctions = 1..Len(problem.visits)
        /\ \A n \in DOMAIN disjunctions :
              LET net == NodeNet(problem, n)
              IN  /\ disjunctions[n] >= 0
                  /\ net <= 0 => disjunctions[n] = 0
                  /\ net > 0 => 2 * Abs(10 * disjunctions[n] - net) <= 10

\* a depot-day with a visit that loses 5.005 dollars and a visit that brings
\* 400.015 dollars, whose penalty is 40002 cents
C23_Witness ==
    /\ pc = "returned"
    /\ \E n, m \in DOMAIN disjunctions :
          /\ NodeNet(problem, n) = 0 - 5005 /\ disjunctions[n] = 0
          /\ NodeNet(problem, m) = 400015 /\ disjunctions[m] = 40002

\* C25 (as claimed): a search of solve_daily_vrp runs with the time limit
\* given by --solver-time.
C25_SolverTimeReachesEngine ==
    pc \in {"extract", "returned"} => search_time_limit = args_solver_time

\* the vehicles of the assignment whose route is returned
KeptVehicles ==
    {v \in DOMAIN solution.routes :
        /\ solution.routes[v] # << >>
        /\ RouteRevenue(problem, solution.routes[v])
             >= RouteTotalCost(problem, solution.routes[v])}

\* C30: at return from solve_daily_vrp, trucks_used is the number of returned
\* routes and at most max_trucks; total_lbs, total_minutes and
\* total_cost_cents are the sums over the returned routes; the cost of a
\* returned route is its arc costs plus the fixed vehicle cost, once; the
\* returned routes are those of the vehicles with stops that passed the
\* profitability gate, and no other vehicle counts.
C30_StatsMatchRoutes ==
    pc = "returned" =>
        /\ result.stats.trucks_used = Len(result.routes)
        /\ result.stats.trucks_used <= num_vehicles(problem)
        /\ result.stats.total_lbs
             = SumSeq(LAMBDA r : r.total_lbs, result.routes)
        /\ result.stats.total_minutes
             = SumSeq(LAMBDA r : r.total_minutes, result.routes)
        /\ result.stats.total_cost_cents
             = SumSeq(LAMBDA r : r.cost_cents, result.routes)
        /\ \A r \in DOMAIN result.routes :
              /\ result.routes[r].cost_cents
                   = RouteCost(problem, result.routes[r].stops)
                     + TRUCK_FIXED_COST_SOLVER
              /\ result.routes[r].total_lbs
                   = RouteLbs(problem, result.routes[r].stops)
              /\ result.routes[r].total_minutes
                   = RouteMinutes(problem, result.routes[r].stops)
        /\ {result.routes[r].vehicle_id : r \in DOMAIN result.routes}
             = KeptVehicles
        /\ Len(result.routes) = Cardinality(KeptVehicles)

\* of the two trucks of a depot one came back with a route that has arc
\* costs, the other's route was discarded
C30_Witness ==
    /\ pc = "returned" /\ solution.found
    /\ \A v \in DOMAIN solution.routes : solution.routes[v] # << >>
    /\ Len(result.routes) = 1
    /\ result.stats.total_cost_cents > TRUCK_FIXED_COST_SOLVER

C27_ReturnPartition ==
    pc = "done" =>
        /\ open_depots \cap DOMAIN closed_depots = {}
        /\ open_depots \cup DOMAIN closed_depots = DOMAIN depots
        /\ DOMAIN current_pnl = open_depots
        /\ \A k \in open_depots : current_pnl[k].depot = k

\* select_depots returns after a committed closure and a rejected one
C27_Witness ==
    /\ pc = "done"
    /\ DOMAIN closed_depots # {}
    /\ worst_key \in open_depots
    /\ iteration = 2

\* the number of visits of site i in the stored schedule
WeekVisits(i) ==
    SumOver([d \in 0..(Len(schedule) - 1) |-> Cardinality(VisitsOn(i, d))],
            0..(Len(schedule) - 1))

\* C28 (as claimed): in the weekly schedule built without holidays every site
\* has as many visits as its weekly_visits, the number the depot estimate
\* multiplies its revenue and cost by.
C28_VisitCountsAgree ==
    (pc = "week_done" /\ holidays = {}) =>
        \A i \in DOMAIN day_sites : WeekVisits(i) = day_sites[i].weekly_visits

\* C29 (as claimed): at return from select_depots every site is assigned to a
\* depot of the open set, the depots whose visits main hands to the solver.
C29_NoVisitLost ==
    pc = "done" => \A i \in DOMAIN sites : sites[i].depot \in open_depots

\* C24 (as claimed): when every concurrent invocation of
\* build_google_matrices has returned, the cache file holds every pair that
\* one of them fetched from the provider.
C24_NoCachedPairLost ==
    (\A w \in Workers : worker_pc[w] = "returned") => fetched \subseteq cache_file
=============================================================================
